---- MODULE Spec2Model ----
(***************************************************************************)
(* A model of krome's Event Bus (lib/event.js): the LISTENERS registry,    *)
(* on / once / off, the chrome.runtime.onMessage dispatcher with its       *)
(* response aggregation, and emit over the one-shot send primitives; of    *)
(* its Channels over long-lived ports and the HANDLERS registry            *)
(* (lib/channel.js); and of the Tunnel and its broker (lib/tunnel.js).     *)
(***************************************************************************)
EXTENDS Integers, Sequences, FiniteSets, TLC

\* ------------------------------------------------------------------ bounds

\* Listener entries held by LISTENERS, over all event names.
MaxRegistered == 2

\* Closures created by once().
MaxOnce == 1

\* Calls of emit() recorded.
MaxEmits == 2

\* Channel objects constructed.
MaxChannels == 2

\* Handler entries held by HANDLERS, over all channel names.
MaxHandlers == 2

\* Listener entries held by the channels, over all channels and event names.
MaxAttached == 2

\* Closures created by Channel.once(), per channel.
MaxWrapped == 1

\* Channel objects the application constructs itself.
MaxNew == 1

\* Listener entries held by the LISTENERS of storage.js.
MaxStored == 2

\* Closures created by the once() of storage.js.
MaxStoredOnce == 2

\* ------------------------------------------------------------------ strings

NAMESPACE == "@krome/event"

\* String.prototype.startsWith
StartsWith(s, p) == Len(s) >= Len(p) /\ SubSeq(s, 1, Len(p)) = p

\* String.prototype.indexOf, 1-based; 0 when p does not occur in s.
IndexOf(s, p) ==
  LET at == {i \in 1..(Len(s) - Len(p) + 1) : SubSeq(s, i, i + Len(p) - 1) = p}
  IN  IF at = {} THEN 0 ELSE CHOOSE i \in at : \A j \in at : i <= j

\* String.prototype.replace with a string pattern: the first occurrence only.
Replace(s, p, r) ==
  LET i == IndexOf(s, p)
  IN  IF i = 0 THEN s
      ELSE SubSeq(s, 1, i - 1) \o r \o SubSeq(s, i + Len(p), Len(s))

\* ------------------------------------------------------------------ values

\* Event names the application registers listeners under ("" is the empty name).
Names == {"", "foo", "bar"}

Payloads == {"bar", "qux"}

Senders == {"sender"}

\* The application's listener functions, by what they return.
Fns == {"spy", "baz", "fez", "nul", "later"}

Fn(id) == [kind |-> "fn", id |-> id, n |-> 0]

\* The closure `wrapped` created by the n-th call of once().
Wrapped(n) == [kind |-> "wrapped", id |-> "wrapped", n |-> n]

\* A listener argument that is absent, and one that is not a function.
Absent == [kind |-> "undefined", id |-> "", n |-> 0]

NotFn == [kind |-> "object", id |-> "", n |-> 0]

\* A deleted entry of a Set's entry list, as a live iterator sees it.
Empty == [kind |-> "empty", id |-> "", n |-> 0]

\* !listener || listener.constructor !== Function, negated
IsFunction(l) == l.kind \in {"fn", "wrapped", "resolve", "listen", "broker", "tunnel"}

\* What a listener function returns when invoked: nothing, a plain value, null,
\* or a promise (which the application settles later, see Settle).
Returns(id) ==
  CASE id = "spy"   -> [type |-> "undefined", value |-> ""]
    [] id = "baz"   -> [type |-> "value", value |-> "baz"]
    [] id = "fez"   -> [type |-> "value", value |-> "fez"]
    [] id = "nul"   -> [type |-> "null", value |-> ""]
    [] id = "later" -> [type |-> "promise", value |-> ""]

\* ------------------------------------------------------------------ state

VARIABLES
  LISTENERS,   \* the Map: event name -> Set of listeners, in insertion order
  closures,    \* the closures made by once(): captured event and listener
  op,          \* the call of on / once / off just made, and what it found
  dispatch,    \* the inbound message being followed: what the dispatcher did
  calls,       \* the calls of emit(), oldest first
  sent,        \* the calls emit() made of the host's send primitives
  promises,    \* the promise returned by each call of emit()
  context,     \* the page the library runs in: background, devtools or contents
  HANDLERS,    \* the Map: channel name -> Set of handlers, in insertion order
  channels,    \* the Channel objects constructed, each with its port
  peers,       \* the broker's devtools and contents Maps: identity -> channel
  chop,        \* the registry, channel or port operation just run, and its effects
  StorageLISTENERS, \* storage.js: event name -> Map of listener -> {sync, local}
  storageClosures,  \* the closures made by the once() of storage.js
  sop          \* the storage call or change notification just run

\* LISTENERS and closures are the program's state. op and dispatch record one
\* operation at a time: a call of on / once / off ends the record of the
\* dispatch before it, and a dispatch ends the record of the call before it.
\* A dispatch that is still waiting for its listeners' futures reads nothing of
\* the registry, so nothing is lost by no longer following it.
busVars == <<LISTENERS, closures, op, dispatch>>

emitVars == <<calls, sent, promises>>

channelVars == <<context, HANDLERS, channels, peers, chop>>

storageVars == <<StorageLISTENERS, storageClosures, sop>>

vars ==
  <<LISTENERS, closures, op, dispatch, calls, sent, promises,
    context, HANDLERS, channels, peers, chop,
    StorageLISTENERS, storageClosures, sop>>

\* LISTENERS.has(event)
Has(L, event) == event \in DOMAIN L

\* The members of a Set's entry list.
Members(s) == {s[i] : i \in 1..Len(s)}

\* Number of listener entries in the whole registry.
Registered(L) ==
  LET RECURSIVE Sum(_)
      Sum(S) == IF S = {} THEN 0
                ELSE LET e == CHOOSE x \in S : TRUE
                     IN  Len(L[e]) + Sum(S \ {e})
  IN  Sum(DOMAIN L)

\* Set.prototype.add: appends unless present.
SetAdd(s, l) == IF l \in Members(s) THEN s ELSE Append(s, l)

\* Set.prototype.delete
SetDelete(s, l) == SelectSeq(s, LAMBDA x : x # l)

\* Set.prototype.delete while an iterator is live: the entry becomes empty and
\* the positions of the other entries do not move.
SetDeleteLive(s, l) == [i \in 1..Len(s) |-> IF s[i] = l THEN Empty ELSE s[i]]

NoListeners == [e \in {} |-> <<>>]

NoOp ==
  [name |-> "none", event |-> "", listener |-> Absent, had |-> FALSE,
   before |-> NoListeners]

NoDispatch ==
  [msg |-> [payload |-> "bar"], sender |-> "sender", accepted |-> FALSE,
   name |-> "", before |-> NoListeners, invoked |-> <<>>, responses |-> <<>>,
   threw |-> FALSE, responded |-> <<>>, mode |-> "idle"]

\* HANDLERS = new Map()
NoHandlers == [n \in {} |-> <<>>]

\* const devtools = new Map(); const contents = new Map();
NoPeers == [devtools |-> [i \in {} |-> 0], contents |-> [i \in {} |-> 0]]

NoChop ==
  [name |-> "none", channel |-> 0, event |-> "", listener |-> Absent,
   payload |-> "undefined", created |-> 0, opened |-> <<>>,
   handled |-> <<>>, invoked |-> <<>>, posted |-> <<>>, closed |-> <<>>,
   threw |-> FALSE]

\* The Event Bus module once loaded.
InitEvent ==
  /\ LISTENERS = NoListeners
  /\ closures = <<>>
  /\ op = NoOp
  /\ dispatch = NoDispatch
  /\ calls = <<>>
  /\ sent = <<>>
  /\ promises = <<>>

\* The channel module once loaded, and no tunnel created.
InitChannel ==
  /\ HANDLERS = NoHandlers
  /\ channels = <<>>
  /\ peers = NoPeers
  /\ chop = NoChop

\* A storage call or notification that has not happened.
NoSop ==
  [name |-> "none", event |-> "", listener |-> Absent, keys |-> <<>>,
   invoked |-> <<>>]

\* storage.js once loaded: const LISTENERS = new Map()
InitStorage ==
  /\ StorageLISTENERS = NoListeners
  /\ storageClosures = <<>>
  /\ sop = NoSop

\* The pages of an extension that load the library.
Contexts == {"background", "devtools", "contents"}

\* The library loaded in the background page.
Init ==
  InitEvent /\ InitChannel /\ InitStorage /\ context = "background"

\* The library loaded in any one of the pages.
InitAnywhere ==
  InitEvent /\ InitChannel /\ InitStorage /\ context \in Contexts

\* The library loaded in the background page or in a content script.
InitEither ==
  InitEvent /\ InitChannel /\ InitStorage /\ context \in {"background", "contents"}

\* The library loaded in a content script.
InitContents ==
  InitEvent /\ InitChannel /\ InitStorage /\ context = "contents"

\* ------------------------------------------------------------------ on / once / off

\* on(event, listener): the registry after the call.
on(L, event, listener) ==
  IF event = "" \/ ~IsFunction(listener) THEN L
  ELSE LET M == IF Has(L, event) THEN L ELSE (event :> <<>>) @@ L
       IN  [M EXCEPT ![event] = SetAdd(@, listener)]

\* off() as a clear(): every listener of the event goes, not only the one given.
offClears(L, event, listener) ==
  IF event = "" \/ ~IsFunction(listener) THEN L
  ELSE IF Has(L, event) THEN [L EXCEPT ![event] = <<>>]
  ELSE L

\* off(event, listener): the registry after the call.
off(L, event, listener) ==
  IF event = "" \/ ~IsFunction(listener) THEN L
  ELSE IF Has(L, event) THEN [L EXCEPT ![event] = SetDelete(@, listener)]
  ELSE L

\* The resolve function of the promise once() returns when it is given no listener.
Resolve(n) == [kind |-> "resolve", id |-> "resolve", n |-> n]

\* once(event, listener): the closure `wrapped` and what it captures. Without a
\* function to call, the captured listener is the resolve of a new promise.
NewClosure(event, listener) ==
  LET n == Len(closures) + 1
  IN  [event |-> event,
       listener |-> IF IsFunction(listener) THEN listener ELSE Resolve(n),
       promise |-> IF IsFunction(listener) THEN "none" ELSE "pending",
       value |-> "", calls |-> 0, seen |-> 0]

\* Had(L, event, listener): the listener is registered under the event.
Had(L, event, listener) == Has(L, event) /\ listener \in Members(L[event])

\* The functions the application holds. It never holds a `wrapped`: that closure
\* is local to once().
Listeners == {Fn(id) : id \in Fns}

Arguments == Listeners \cup {Absent, NotFn}

\* The calls of on and off explored: every argument under "foo", a listener
\* that returns nothing and one that returns a value under "bar", and the empty
\* name with a function.
Calls ==
  {<<"foo", l>> : l \in Arguments}
    \cup {<<"bar", Fn("spy")>>, <<"bar", Fn("baz")>>, <<"", Fn("spy")>>}

\* The calls of once explored. wrapped() discards what the captured listener
\* returns, so one function stands for all of them.
OnceCalls ==
  {<<"foo", l>> : l \in {Fn("spy"), Absent, NotFn}} \cup {<<"", Fn("spy")>>}

On(event, listener) ==
  /\ Registered(on(LISTENERS, event, listener)) <= MaxRegistered
  /\ LISTENERS' = on(LISTENERS, event, listener)
  /\ op' = [name |-> "on", event |-> event, listener |-> listener,
            had |-> Had(LISTENERS, event, listener), before |-> LISTENERS]
  /\ dispatch' = NoDispatch
  /\ UNCHANGED <<closures, emitVars, channelVars, storageVars>>

Once(event, listener) ==
  /\ IF event = ""
     THEN UNCHANGED <<LISTENERS, closures>>
     ELSE /\ Len(closures) < MaxOnce
          /\ Registered(LISTENERS) < MaxRegistered
          /\ closures' = Append(closures, NewClosure(event, listener))
          /\ LISTENERS' = on(LISTENERS, event, Wrapped(Len(closures) + 1))
  /\ op' = [name |-> "once", event |-> event, listener |-> listener,
            had |-> Had(LISTENERS, event, listener), before |-> LISTENERS]
  /\ dispatch' = NoDispatch
  /\ UNCHANGED <<emitVars, channelVars, storageVars>>

Off(event, listener) ==
  /\ LISTENERS' = off(LISTENERS, event, listener)
  /\ op' = [name |-> "off", event |-> event, listener |-> listener,
            had |-> Had(LISTENERS, event, listener), before |-> LISTENERS]
  /\ dispatch' = NoDispatch
  /\ UNCHANGED <<closures, emitVars, channelVars, storageVars>>

\* ------------------------------------------------------------------ inbound dispatch

\* The envelope without the namespace, as emit() built it before NAMESPACE existed.
EnvelopeBare(event, payload) == [event |-> event, payload |-> payload]

\* The envelope emit() builds for an event and a payload.
Envelope(event, payload) ==
  [event |-> NAMESPACE \o "/" \o event, payload |-> payload]

\* Event fields of one-shot messages that other senders put on the channel.
Foreign == {"", "foo", "@krome/events/foo"}

\* What chrome.runtime.onMessage can deliver: envelopes of emit(), messages of
\* other senders, and messages with no event field at all.
Messages ==
  {Envelope("foo", p) : p \in Payloads}
    \cup {Envelope("bar", "bar")}
    \cup {[event |-> e, payload |-> "bar"] : e \in Foreign}
    \cup {[payload |-> "bar"]}

\* !event || !event.startsWith(NAMESPACE), negated
Accepted(msg) ==
  /\ "event" \in DOMAIN msg
  /\ msg.event # ""
  /\ StartsWith(msg.event, NAMESPACE)

\* event.replace(`${NAMESPACE}/`, '')
Stripped(event) == Replace(event, NAMESPACE \o "/", "")

\* wrapped(payload, sender): the captured listener is called, then
\* off(event, wrapped) runs while the dispatcher's iterator is live.
CallWrapped(st, n, payload) ==
  LET c == st.closures[n]
      called == [c EXCEPT !.calls = IF @ < 2 THEN @ + 1 ELSE @,
                          !.promise = IF @ = "pending" THEN "fulfilled" ELSE @,
                          !.value = IF c.promise = "pending" THEN payload ELSE @]
  IN  [st EXCEPT !.closures[n] = called,
                 !.L = IF Has(st.L, c.event)
                       THEN [st.L EXCEPT ![c.event] = SetDeleteLive(@, Wrapped(n))]
                       ELSE st.L]

\* responses.push(response.constructor === Promise ? response :
\* Promise.resolve(response)); reading .constructor of null throws.
Push(st, response) ==
  CASE response.type = "undefined" -> st
    [] response.type = "null" -> [st EXCEPT !.threw = TRUE]
    [] response.type = "value" ->
         [st EXCEPT !.responses =
            Append(@, [state |-> "fulfilled", value |-> response.value])]
    [] response.type = "promise" ->
         [st EXCEPT !.responses = Append(@, [state |-> "pending", value |-> ""])]

\* One listener(payload, sender) call of the loop and the handling of its result.
Invoke(st, listener, payload, sender) ==
  LET logged == [st EXCEPT !.invoked =
                   Append(@, [listener |-> listener, payload |-> payload,
                              sender |-> sender])]
  IN  IF listener.kind = "wrapped"
      THEN CallWrapped(logged, listener.n, payload)
      ELSE Push(logged, Returns(listener.id))

\* The entry the iterator visits after position i, given the entry list now.
NextIndex(data, i) == i + 1

RECURSIVE ForOf(_, _, _, _, _)
\* for (const listener of LISTENERS.get(event)) { ... }, from position i on.
ForOf(st, event, i, payload, sender) ==
  IF st.threw \/ i > Len(st.L[event]) THEN st
  ELSE IF st.L[event][i] = Empty
       THEN ForOf(st, event, NextIndex(st.L[event], i), payload, sender)
       ELSE LET after == Invoke(st, st.L[event][i], payload, sender)
            IN  ForOf(after, event, NextIndex(after.L[event], i), payload, sender)

\* The entry lists once no iterator is live: empty entries are gone.
Compact(L) == [e \in DOMAIN L |-> SelectSeq(L[e], LAMBDA x : x # Empty)]

\* respond([]): the empty list of responses passed on instead of nothing.
RespondEmpty == [kind |-> "array", vals |-> <<>>]

\* respond() with no argument, respond(value), respond([values])
RespondNone == [kind |-> "none", vals |-> <<>>]

RespondSingle(v) == [kind |-> "single", vals |-> <<v>>]

RespondAll(responses) ==
  [kind |-> "array", vals |-> [i \in 1..Len(responses) |-> responses[i].value]]

\* Bookkeeping: the closures of once(E) have seen one more envelope of E arrive
\* (counted up to 2: the first dispatch after once(), and a later one).
Seen(cl, msg) ==
  [n \in 1..Len(cl) |->
     IF /\ "event" \in DOMAIN msg
        /\ msg.event = "@krome/event/" \o cl[n].event
        /\ cl[n].seen < 2
     THEN [cl[n] EXCEPT !.seen = @ + 1] ELSE cl[n]]

\* The chrome.runtime.onMessage listener, run to completion on one message.
Handle(msg, sender) ==
  LET base == [NoDispatch EXCEPT !.msg = msg, !.sender = sender,
                                 !.before = LISTENERS]
  IN
  IF ~Accepted(msg)
  THEN [L |-> LISTENERS, closures |-> closures,
        d |-> [base EXCEPT !.mode = "ignored"]]
  ELSE
    LET event == Stripped(msg.event)
        named == [base EXCEPT !.accepted = TRUE, !.name = event]
    IN
    IF ~Has(LISTENERS, event)
    THEN [L |-> LISTENERS, closures |-> closures,
          d |-> [named EXCEPT !.responded = <<RespondNone>>, !.mode = "done"]]
    ELSE
      LET st == ForOf([L |-> LISTENERS,
                       closures |-> closures,
                       invoked |-> <<>>, responses |-> <<>>, threw |-> FALSE],
                      event, 1, msg.payload, sender)
          ran == [named EXCEPT !.invoked = st.invoked,
                               !.responses = st.responses, !.threw = st.threw]
      IN  [L |-> Compact(st.L), closures |-> st.closures,
           d |-> CASE st.threw -> [ran EXCEPT !.mode = "threw"]
                   [] ~st.threw /\ Len(st.responses) = 0 ->
                        [ran EXCEPT !.responded = <<RespondNone>>, !.mode = "done"]
                   [] ~st.threw /\ Len(st.responses) = 1 ->
                        [ran EXCEPT !.mode = "single"]
                   [] OTHER -> [ran EXCEPT !.mode = "all"]]

Dispatch(msg, sender) ==
  LET h == Handle(msg, sender)
  IN  /\ LISTENERS' = h.L
      /\ closures' = Seen(h.closures, msg)
      /\ dispatch' = h.d
      /\ op' = NoOp
      /\ UNCHANGED <<emitVars, channelVars, storageVars>>

\* A promise returned by a listener of the latest dispatch fulfils or rejects.
Settle(i, outcome) ==
  /\ i \in 1..Len(dispatch.responses)
  /\ dispatch.responses[i].state = "pending"
  /\ dispatch' = [dispatch EXCEPT !.responses[i] =
                    IF outcome = "reject"
                    THEN [state |-> "rejected", value |-> ""]
                    ELSE [state |-> "fulfilled", value |-> outcome]]
  /\ UNCHANGED <<LISTENERS, closures, op, emitVars, channelVars, storageVars>>

\* responses[0].then(respond): runs once the single response has fulfilled.
ThenSingle ==
  /\ dispatch.mode = "single"
  /\ dispatch.responses[1].state = "fulfilled"
  /\ dispatch' = [dispatch EXCEPT
                    !.responded = Append(@, RespondSingle(dispatch.responses[1].value)),
                    !.mode = "done"]
  /\ UNCHANGED <<LISTENERS, closures, op, emitVars, channelVars, storageVars>>

\* Promise.all(responses).then(respond): runs once every response has fulfilled.
ThenAll ==
  /\ dispatch.mode = "all"
  /\ \A i \in 1..Len(dispatch.responses) : dispatch.responses[i].state = "fulfilled"
  /\ dispatch' = [dispatch EXCEPT
                    !.responded = Append(@, RespondAll(dispatch.responses)),
                    !.mode = "done"]
  /\ UNCHANGED <<LISTENERS, closures, op, emitVars, channelVars, storageVars>>

\* ------------------------------------------------------------------ emit

\* JavaScript values passed to emit(): numbers, strings and undefined.
Num(n) == [type |-> "number", num |-> n, str |-> ""]

Str(x) == [type |-> "string", num |-> 0, str |-> x]

Undefined == [type |-> "undefined", num |-> 0, str |-> ""]

\* ToBoolean of such a value: 0, '' and undefined are falsy.
Truthy(v) ==
  CASE v.type = "number" -> v.num # 0
    [] v.type = "string" -> v.str # ""
    [] OTHER -> FALSE

\* The parameters after "Move around parameters if no tab ID is provided".
Parameters(tab, event, payload) ==
  IF tab.type # "number"
  THEN [tab |-> Undefined, event |-> tab, payload |-> event]
  ELSE [tab |-> tab, event |-> event, payload |-> payload]

\* emit(tab, event, payload): the calls it makes of the host's send primitives.
\* An empty result with promise FALSE is the early return.
emit(tab, event, payload) ==
  LET p == Parameters(tab, event, payload)
  IN  IF ~Truthy(p.event)
      THEN [promise |-> FALSE, sends |-> <<>>]
      ELSE [promise |-> TRUE,
            sends |-> <<IF Truthy(p.tab)
                        THEN [api |-> "chrome.tabs.sendMessage", tab |-> p.tab,
                              message |-> Envelope(p.event.str, p.payload)]
                        ELSE [api |-> "chrome.runtime.sendMessage", tab |-> Undefined,
                              message |-> Envelope(p.event.str, p.payload)]>>]

\* The arguments emit() is called with.
EmitArguments ==
  {Num(0), Num(7), Str("foo"), Str(""), Undefined}
    \X {Str("foo"), Str("bar"), Str(""), Undefined}
    \X {Str("bar"), Undefined}

Emit(tab, event, payload) ==
  LET k == Len(calls) + 1
      r == emit(tab, event, payload)
  IN  /\ Len(calls) < MaxEmits
      /\ calls' = Append(calls, <<tab, event, payload>>)
      /\ sent' = sent \o [i \in 1..Len(r.sends) |->
                            [call |-> k, called |-> FALSE, callback |-> <<>>,
                             send |-> r.sends[i]]]
      /\ promises' = Append(promises,
                            [state |-> IF r.promise THEN "pending" ELSE "none",
                             value |-> Undefined])
      /\ UNCHANGED <<busVars, channelVars, storageVars>>

\* The callback with its branches swapped: rejects when no error is reported.
handlerSwapped(promise, response, lastError) ==
  IF promise.state # "pending" THEN promise
  ELSE IF Truthy(lastError)
       THEN [state |-> "resolved", value |-> response]
       ELSE [state |-> "rejected", value |-> lastError]

\* handler(response) inside emit(): the promise after the callback has run with
\* chrome.runtime.lastError as given. A settled promise stays as it is.
handler(promise, response, lastError) ==
  IF promise.state # "pending" THEN promise
  ELSE IF Truthy(lastError)
       THEN [state |-> "rejected", value |-> lastError]
       ELSE [state |-> "resolved", value |-> response]

\* The host calls the callback of the i-th send, with chrome.runtime.lastError
\* set or not. The arguments of the call are kept with the send.
Handler(i, response, lastError) ==
  /\ i \in 1..Len(sent)
  /\ ~sent[i].called
  /\ sent' = [sent EXCEPT ![i].called = TRUE,
                          ![i].callback = <<response, lastError>>]
  /\ promises' = [promises EXCEPT ![sent[i].call] = handler(@, response, lastError)]
  /\ UNCHANGED <<busVars, calls, channelVars, storageVars>>

\* ------------------------------------------------------------------ channel

\* NAMESPACE of channel.js
ChannelNAMESPACE == "@krome/channel"

\* A payload that is a plain value; "undefined" stands for undefined.
Value(v) == [nested |-> FALSE, event |-> "", payload |-> v]

\* The object {event, payload} that Tunnel.emit() passes on as a payload.
Wrap(event, payload) == [nested |-> TRUE, event |-> event, payload |-> payload]

\* new Channel(port), and new Tunnel(port), with a port of the host: name and
\* port are kept and the listeners Map is empty. sender is the id of
\* port.sender.tab, "undefined" without one. tab is the variable of the
\* broker's handler that ran for this channel (let tab; in listen).
Channel(kind, name, sender) ==
  [kind |-> kind, name |-> name, connected |-> TRUE, sender |-> sender,
   listeners |-> NoListeners, wrapped |-> <<>>, tab |-> "undefined"]

\* Channel.on(event, listener): the channel after the call.
Channel_on(c, event, listener) ==
  IF event = "" \/ ~IsFunction(listener) THEN c
  ELSE LET M == IF Has(c.listeners, event) THEN c.listeners
                ELSE (event :> <<>>) @@ c.listeners
       IN  [c EXCEPT !.listeners = [M EXCEPT ![event] = SetAdd(@, listener)]]

\* Channel.off(event, listener): the channel after the call.
Channel_off(c, event, listener) ==
  IF event = "" \/ ~IsFunction(listener) THEN c
  ELSE IF Has(c.listeners, event)
       THEN [c EXCEPT !.listeners[event] = SetDelete(@, listener)]
       ELSE c

\* Channel.once(event, listener): the channel after the call. The closure
\* `wrapped` is kept with what it captures; without a function to call the
\* captured listener is the resolve of a new promise.
Channel_once(c, event, listener) ==
  IF event = "" THEN c
  ELSE LET n == Len(c.wrapped) + 1
           captured == IF IsFunction(listener) THEN listener ELSE Resolve(n)
       IN  Channel_on([c EXCEPT !.wrapped =
                         Append(@, [event |-> event, listener |-> captured])],
                      event, Wrapped(n))

\* Channel.emit(event, payload) with no event name reserved.
Channel_emitAll(event, payload) ==
  IF event = "" THEN <<>> ELSE <<[event |-> event, payload |-> payload]>>

\* Channel.emit(event, payload): the messages given to port.postMessage.
Channel_emit(event, payload) ==
  IF event = "" THEN <<>>
  ELSE IF event # "disconnect" THEN <<[event |-> event, payload |-> payload]>>
  ELSE <<>>

\* A Tunnel whose emit is the one it inherits: the event goes out under its
\* own name.
Tunnel_emitInherited(event, payload) == Channel_emit(event, Value(payload))

\* Tunnel.emit(event, payload): super.emit('event', {event, payload})
Tunnel_emit(event, payload) == Channel_emit("event", Wrap(event, payload))

\* The running operation: the registry H, the channels C and the broker's
\* tables P as they are now, the payload the call was given, if it takes one,
\* and what the operation has done so far.
Start ==
  [H |-> HANDLERS, C |-> channels, P |-> peers, given |-> "undefined",
   created |-> 0, opened |-> <<>>,
   handled |-> <<>>, invoked |-> <<>>, posted |-> <<>>, closed |-> <<>>,
   threw |-> FALSE]

\* this.port.postMessage(message) on channel c, for each message of emit().
\* The call is noted with the number of handler calls begun before it.
Post(st, c, messages) ==
  [st EXCEPT !.posted =
     @ \o [i \in 1..Len(messages) |->
             [channel |-> c, connected |-> st.C[c].connected,
              message |-> messages[i], during |-> Len(st.handled)]]]

\* emit(event, payload) called on channel c, by its class.
EmitOn(st, c, event, payload) ==
  IF st.C[c].kind = "Tunnel"
  THEN Post(st, c, Tunnel_emit(event, payload))
  ELSE Post(st, c, Channel_emit(event, Value(payload)))

\* The listeners of listen(type, host, remote, id) in tunnel.create(): the one
\* given to c.once('init'), to c.on('event') and to c.on('disconnect').
BrokerListener(what, type) ==
  [kind |-> "broker", id |-> what, n |-> IF type = "devtools" THEN 1 ELSE 2]

\* The type a broker listener was made for, and the type of its remote.
TypeOf(listener) == IF listener.n = 1 THEN "devtools" ELSE "contents"

Remote(type) == IF type = "devtools" THEN "contents" ELSE "devtools"

\* Map.prototype.set and Map.prototype.delete
MapSet(m, k, v) == [x \in DOMAIN m \cup {k} |-> IF x = k THEN v ELSE m[x]]

MapDelete(m, k) == [x \in DOMAIN m \ {k} |-> m[x]]

\* A call of a listener is noted: `via` is the closure of once() that made the
\* call, 0 when the listener was called as a member of the listeners Set.
Noted(st, c, listener, payload, sender, via) ==
  [st EXCEPT !.invoked =
     Append(@, [channel |-> c, listener |-> listener, payload |-> payload,
                sender |-> sender, via |-> via])]

\* host.set(tab = id(payload, sender), c), with id either payload => payload
\* or (_, {tab}) => tab.id, which throws when the sender has no tab.
InitListener(st, c, type, payload, sender) ==
  IF type = "contents" /\ sender = "undefined"
  THEN [st EXCEPT !.threw = TRUE]
  ELSE LET id == IF type = "devtools" THEN payload.payload ELSE sender
       IN  [st EXCEPT !.C[c].tab = id, !.P[type] = MapSet(@, id, c)]

\* The listener of 'event' looking the identity up in host, the table of the
\* sender's own type, instead of remote.
EventListenerHost(st, c, type, payload) ==
  LET host == st.P[type]
      tab == st.C[c].tab
  IN  IF ~payload.nested /\ payload.payload = "undefined"
      THEN [st EXCEPT !.threw = TRUE]
      ELSE IF tab \notin DOMAIN host THEN st
      ELSE IF ~payload.nested THEN Post(st, host[tab], Channel_emit("", Value("undefined")))
      ELSE Post(st, host[tab], Channel_emit(payload.event, Value(payload.payload)))

\* ({event, payload}) => { if (remote.has(tab)) remote.get(tab).emit(event,
\* payload); }: the parameter is the payload of the 'event' message. Its
\* destructuring throws on undefined, and gives undefined for both names on a
\* plain value.
EventListener(st, c, type, payload) ==
  LET remote == st.P[Remote(type)]
      tab == st.C[c].tab
  IN  IF ~payload.nested /\ payload.payload = "undefined"
      THEN [st EXCEPT !.threw = TRUE]
      ELSE IF tab \notin DOMAIN remote THEN st
      ELSE IF ~payload.nested THEN Post(st, remote[tab], Channel_emit("", Value("undefined")))
      ELSE Post(st, remote[tab], Channel_emit(payload.event, Value(payload.payload)))

\* The listener of 'disconnect' leaving the tables as they are.
DisconnectListenerKeeps(st, c, type) == st

\* The listener of 'disconnect' taking the identity out of both tables.
DisconnectListenerBoth(st, c, type) ==
  [st EXCEPT !.P[type] = MapDelete(@, st.C[c].tab),
             !.P[Remote(type)] = MapDelete(@, st.C[c].tab)]

\* () => { host.delete(tab); }
DisconnectListener(st, c, type) ==
  [st EXCEPT !.P[type] = MapDelete(@, st.C[c].tab)]

\* listener(payload, sender) for a listener that is not a closure of once().
CallListener(st, c, listener, payload, sender, via) ==
  LET noted == Noted(st, c, listener, payload, sender, via)
  IN  CASE listener.kind = "broker" /\ listener.id = "init" ->
             InitListener(noted, c, TypeOf(listener), payload, sender)
        [] listener.kind = "broker" /\ listener.id = "event" ->
             EventListener(noted, c, TypeOf(listener), payload)
        [] listener.kind = "broker" /\ listener.id = "disconnect" ->
             DisconnectListener(noted, c, TypeOf(listener))
        [] OTHER -> noted

\* wrapped(payload, sender) of Channel.once(): the captured listener is called,
\* then this.off(event, wrapped) runs while invoke's iterator is live.
CallWrappedOn(st, c, n, payload, sender) ==
  LET w == st.C[c].wrapped[n]
      noted == Noted(st, c, Wrapped(n), payload, sender, 0)
      called == CallListener(noted, c, w.listener, payload, sender, n)
  IN  IF called.threw THEN called
      ELSE IF Has(called.C[c].listeners, w.event)
           THEN [called EXCEPT !.C[c].listeners[w.event] = SetDeleteLive(@, Wrapped(n))]
           ELSE called

RECURSIVE InvokeForOf(_, _, _, _, _, _)
\* for (const listener of listeners.get(event)) { listener(payload, ...) },
\* from position i on.
InvokeForOf(st, c, event, i, payload, sender) ==
  LET set == st.C[c].listeners[event]
  IN  IF st.threw \/ i > Len(set) THEN st
      ELSE IF set[i] = Empty
           THEN InvokeForOf(st, c, event, NextIndex(set, i), payload, sender)
           ELSE LET after == IF set[i].kind = "wrapped"
                             THEN CallWrappedOn(st, c, set[i].n, payload, sender)
                             ELSE CallListener(st, c, set[i], payload, sender, 0)
                IN  InvokeForOf(after, c, event,
                                NextIndex(after.C[c].listeners[event], i),
                                payload, sender)

\* invoke(event, payload, sender) of channel c. The sender the listeners get
\* carries the tab of port.sender, if any.
invoke(st, c, event, payload, sender) ==
  IF event = "" THEN st
  ELSE IF ~Has(st.C[c].listeners, event) THEN st
  ELSE LET ran == InvokeForOf(st, c, event, 1, payload, sender)
       IN  [ran EXCEPT !.C[c].listeners = Compact(@)]

\* ------------------------------------------------------------------ registry and tunnel

\* The probe of connect(): chrome.runtime.getBackgroundPage(e => e) does not
\* throw. Only the background page has that function.
background == context = "background"

\* const devtools = chrome.devtools !== undefined, in tunnel.connect()
devtools == context = "devtools"

\* chrome.devtools.inspectedWindow.tabId of the devtools page
InspectedTab == "T1"

\* The functions the application gives to connect().
Handlers == {Fn("h1"), Fn("h2")}

\* The function listen() gives to channel.connect() in tunnel.create().
ListenHandler(type) == [kind |-> "listen", id |-> type, n |-> 0]

\* The function tunnel.connect() gives to channel.connect(); it holds the
\* application's handler.
TunnelHandler(type) == [kind |-> "tunnel", id |-> type, n |-> 0]

\* A port of the host, and a Channel passed where a port is expected.
HostPort(name, sender) == [type |-> "port", name |-> name, sender |-> sender, channel |-> 0]

ChannelAsPort(c) == [type |-> "channel", name |-> "", sender |-> "undefined", channel |-> c]

\* new Channel(port) / new Tunnel(port): the constructor attaches its listeners
\* with this.port.onMessage.addListener(...). A Channel has no onMessage, so
\* with a Channel for a port the constructor throws and no object is made.
Constructed(st, kind, port) ==
  IF port.type = "channel"
  THEN [st EXCEPT !.threw = TRUE]
  ELSE [st EXCEPT !.C = Append(@, Channel(kind, port.name, port.sender)),
                  !.created = Len(st.C) + 1]

\* handler(channel), for each kind of handler.
CallHandler(st, h, c) ==
  LET noted == [st EXCEPT !.handled = Append(@, [handler |-> h, channel |-> c])]
  IN  CASE h.kind = "listen" ->
             LET type == h.id
                 c1 == Channel_once(noted.C[c], "init", BrokerListener("init", type))
                 c2 == Channel_on(c1, "event", BrokerListener("event", type))
                 c3 == Channel_on(c2, "disconnect", BrokerListener("disconnect", type))
             IN  [noted EXCEPT !.C[c] = c3]
        [] h.kind = "tunnel" ->
             LET inited == EmitOn(noted, c, "init",
                                  IF h.id = "devtools"
                                  THEN InspectedTab ELSE "undefined")
                 tunnel == Constructed(inited, "Tunnel", ChannelAsPort(c))
             IN  IF tunnel.threw THEN tunnel
                 ELSE [tunnel EXCEPT !.handled =
                         Append(@, [handler |-> Fn("h1"), channel |-> tunnel.created])]
        [] OTHER -> noted

RECURSIVE HandlersForOf(_, _, _, _)
\* for (const handler of HANDLERS.get(name)) { handler(channel); }, from
\* position i on. No handler of the model adds to or deletes from the Set.
HandlersForOf(st, set, c, i) ==
  IF st.threw \/ i > Len(set) THEN st
  ELSE HandlersForOf(CallHandler(st, set[i], c), set, c, NextIndex(set, i))

\* create(name, port) that uses up the handlers it has invoked.
createConsumes(st, name, port) ==
  LET made == Constructed(st, "Channel", port)
  IN  IF Has(made.H, name)
      THEN [HandlersForOf(made, made.H[name], made.created, 1)
              EXCEPT !.H = MapDelete(@, name)]
      ELSE made

\* create(name, port): the new Channel is st.created.
create(st, name, port) ==
  LET made == Constructed(st, "Channel", port)
  IN  IF Has(made.H, name)
      THEN HandlersForOf(made, made.H[name], made.created, 1)
      ELSE made

\* chrome.runtime.connect({name}): a port to the other side is opened.
RuntimeConnect(st, name) == [st EXCEPT !.opened = Append(@, name)]

\* connect(name, handler) that queues the handler on every side.
connectQueues(st, name, h) ==
  IF name = "" \/ ~IsFunction(h) THEN st
  ELSE LET full == ChannelNAMESPACE \o "/" \o name
           H == IF Has(st.H, full) THEN st.H ELSE (full :> <<>>) @@ st.H
       IN  [st EXCEPT !.H = [H EXCEPT ![full] = SetAdd(@, h)]]

\* connect(name, handler)
connect(st, name, h) ==
  IF name = "" \/ ~IsFunction(h) THEN st
  ELSE LET full == ChannelNAMESPACE \o "/" \o name
       IN  IF background
           THEN LET H == IF Has(st.H, full) THEN st.H ELSE (full :> <<>>) @@ st.H
                IN  [st EXCEPT !.H = [H EXCEPT ![full] = SetAdd(@, h)]]
           ELSE LET made == create(RuntimeConnect(st, full), full,
                                   HostPort(full, "undefined"))
                IN  IF made.threw THEN made
                    ELSE CallHandler(made, h, made.created)

\* disconnect(channel) that also tells the listeners of the channel, on every call.
disconnectNotifies(st, c) ==
  IF c = 0 THEN st
  ELSE invoke([st EXCEPT !.H = MapDelete(@, st.C[c].name),
                         !.C[c].connected = FALSE,
                         !.closed = Append(@, [channel |-> c,
                                               connected |-> st.C[c].connected,
                                               deleted |-> <<>>])],
              c, "disconnect", Value("undefined"), st.C[c].sender)

\* disconnect(channel) with HANDLERS.clear() for HANDLERS.delete(channel.name).
disconnectAll(st, c) ==
  IF c = 0 THEN st
  ELSE [st EXCEPT !.H = NoHandlers,
                  !.C[c].connected = FALSE,
                  !.closed = Append(@, [channel |-> c,
                                        connected |-> st.C[c].connected,
                                        deleted |-> IF Has(st.H, st.C[c].name)
                                                    THEN st.H[st.C[c].name]
                                                    ELSE <<>>])]

\* disconnect(channel); c = 0 stands for no channel. port.disconnect() is
\* noted with the state of the port it was called on and the handlers that
\* HANDLERS.delete() took away. The host closes the port and tells the other
\* end; a port already closed stays closed.
disconnect(st, c) ==
  IF c = 0 THEN st
  ELSE [st EXCEPT !.H = MapDelete(@, st.C[c].name),
                  !.C[c].connected = FALSE,
                  !.closed = Append(@, [channel |-> c,
                                        connected |-> st.C[c].connected,
                                        deleted |-> IF Has(st.H, st.C[c].name)
                                                    THEN st.H[st.C[c].name]
                                                    ELSE <<>>])]

\* tunnel.create(name): listen('devtools', ...) then listen('contents', ...)
tunnel_create(st, name) ==
  LET first == connect(st, "tunnel/" \o name \o "/devtools", ListenHandler("devtools"))
  IN  IF first.threw THEN first
      ELSE connect(first, "tunnel/" \o name \o "/contents", ListenHandler("contents"))

\* tunnel.connect(name, handler) that hands the Channel to the application
\* without the handshake.
tunnel_connectBare(st, name) ==
  LET type == IF devtools THEN "devtools" ELSE "contents"
  IN  connect(st, "tunnel/" \o name \o "/" \o type, Fn("h1"))

\* tunnel.connect(name, handler)
tunnel_connect(st, name) ==
  LET type == IF devtools THEN "devtools" ELSE "contents"
  IN  connect(st, "tunnel/" \o name \o "/" \o type, TunnelHandler(type))

\* ------------------------------------------------------------------ channel operations

\* Number of listener entries over all channels.
Attached(C) ==
  LET RECURSIVE Sum(_)
      Sum(i) == IF i = 0 THEN 0 ELSE Registered(C[i].listeners) + Sum(i - 1)
  IN  Sum(Len(C))

\* The operation has run to its end, or to the statement that threw: what it
\* did to the registry, the channels and the tables is the new state, and chop
\* keeps the call and what the operation did.
Commit(name, c, event, listener, st) ==
  /\ Len(st.C) <= MaxChannels
  /\ Registered(st.H) <= MaxHandlers
  /\ HANDLERS' = st.H
  /\ channels' = st.C
  /\ peers' = st.P
  /\ chop' = [name |-> name, channel |-> c, event |-> event, listener |-> listener,
              payload |-> st.given, created |-> st.created, opened |-> st.opened,
              handled |-> st.handled, invoked |-> st.invoked,
              posted |-> st.posted, closed |-> st.closed, threw |-> st.threw]
  /\ UNCHANGED <<busVars, emitVars, context, storageVars>>

\* Names the application connects under, and names of inbound ports: two of
\* the namespace and two of other libraries, one of them beginning with the
\* characters of NAMESPACE.
ChannelNames == {"", "foo", "bar"}

PortNames ==
  {"@krome/channel/foo", "@krome/channel/bar", "@krome/channels/foo", "other"}

\* The application calls connect(name, handler).
Connect(name, h) ==
  /\ name \in ChannelNames
  /\ Commit("connect", 0, name, h, connect(Start, name, h))

\* The application calls disconnect(channel).
Disconnect(c) ==
  /\ c \in 0..Len(channels)
  /\ Commit("disconnect", c, "", Absent, disconnect(Start, c))

\* The chrome.runtime.onConnect listener, called by the host with a new port.
OnConnect(name, sender) ==
  /\ name # ""
  /\ Commit("onConnect", 0, name, Absent,
            IF StartsWith(name, ChannelNAMESPACE)
            THEN create(Start, name, HostPort(name, sender))
            ELSE Start)

\* The port.onMessage listener of channel c, called by the host with a message
\* of the other end: ({event, payload} = {}, {sender}) => invoke(...)
OnMessage(c, message) ==
  /\ c \in 1..Len(channels)
  /\ channels[c].connected
  /\ Commit("onMessage", c, message.event, Absent,
            invoke(Start, c, message.event, message.payload, channels[c].sender))

\* The port.onDisconnect listener of channel c, called by the host when the
\* other end has disconnected or the transport has failed (lastError is set).
\* The host calls it once, and never for a port this end has disconnected.
OnDisconnect(c, lastError) ==
  /\ c \in 1..Len(channels)
  /\ channels[c].connected
  /\ Commit("onDisconnect", c, "disconnect", Absent,
            invoke([Start EXCEPT !.C[c].connected = FALSE], c, "disconnect",
                   Value(lastError), channels[c].sender))

\* The application calls on, once, off and emit of channel c.
ChannelOn(c, event, listener) ==
  /\ c \in 1..Len(channels)
  /\ Attached(channels) < MaxAttached
  /\ Commit("on", c, event, listener,
            [Start EXCEPT !.C[c] = Channel_on(@, event, listener)])

ChannelOnce(c, event, listener) ==
  /\ c \in 1..Len(channels)
  /\ Attached(channels) < MaxAttached
  /\ Len(channels[c].wrapped) < MaxWrapped
  /\ Commit("once", c, event, listener,
            [Start EXCEPT !.C[c] = Channel_once(@, event, listener)])

ChannelOff(c, event, listener) ==
  /\ c \in 1..Len(channels)
  /\ Commit("off", c, event, listener,
            [Start EXCEPT !.C[c] = Channel_off(@, event, listener)])

ChannelEmit(c, event, payload) ==
  /\ c \in 1..Len(channels)
  /\ Commit("emit", c, event, Absent,
            EmitOn([Start EXCEPT !.given = payload], c, event, payload))

\* The application makes a Channel or a Tunnel of a port it has opened.
New(kind, name) ==
  /\ Len(channels) < MaxNew
  /\ Commit("new", 0, name, Absent,
         Constructed(RuntimeConnect(Start, name), kind, HostPort(name, "undefined")))

\* The application calls tunnel.create(name), once and in the background page,
\* and tunnel.connect(name, handler).
TunnelCreate(name) ==
  /\ name # ""
  /\ background
  /\ HANDLERS = NoHandlers
  /\ Commit("tunnel.create", 0, name, Absent, tunnel_create(Start, name))

TunnelConnect(name) ==
  /\ name # ""
  /\ Commit("tunnel.connect", 0, name, Fn("h1"), tunnel_connect(Start, name))

\* ------------------------------------------------------------------ storage

\* An opts argument: {} has id "", {sync: false} "nosync", {local: false}
\* "nolocal".
Opts(id) == [kind |-> "opts", id |-> id, n |-> 0]

\* if (!listener) { listener = opts; opts = {}; }
Given(opts, listener) ==
  IF listener.kind = "undefined"
  THEN [listener |-> opts, opts |-> Opts("")]
  ELSE [listener |-> listener, opts |-> opts]

\* An entry of the Map of an event, and the entry a live iterator finds where
\* one was deleted.
Entry(listener, opts) ==
  [listener |-> listener, sync |-> opts.id # "nosync", local |-> opts.id # "nolocal"]

NoEntry == [listener |-> Empty, sync |-> FALSE, local |-> FALSE]

\* Map.prototype.set(listener, value): a key that is present keeps its place.
EntrySet(map, e) ==
  IF \E i \in 1..Len(map) : map[i].listener = e.listener
  THEN [i \in 1..Len(map) |-> IF map[i].listener = e.listener THEN e ELSE map[i]]
  ELSE Append(map, e)

\* on(event, opts, listener) of storage.js: LISTENERS after the call.
storage_on(L, event, opts, listener) ==
  LET g == Given(opts, listener)
  IN  IF event = "" \/ ~IsFunction(g.listener) THEN L
      ELSE LET M == IF Has(L, event) THEN L ELSE (event :> <<>>) @@ L
           IN  [M EXCEPT ![event] = EntrySet(@, Entry(g.listener, g.opts))]

\* off(event, listener) of storage.js: LISTENERS after the call.
storage_off(L, event, listener) ==
  IF event = "" \/ ~IsFunction(listener) THEN L
  ELSE IF Has(L, event)
       THEN [L EXCEPT ![event] = SelectSeq(@, LAMBDA e : e.listener # listener)]
       ELSE L

\* The closure `wrapped` of the n-th call of once(): the event and the listener
\* it captures, the resolve of a new promise when no function was given, and
\* the number of calls it has made of that listener.
StorageClosure(event, opts, listener) ==
  LET g == Given(opts, listener)
  IN  [event |-> event,
       listener |-> IF IsFunction(g.listener) THEN g.listener
                    ELSE Resolve(Len(storageClosures) + 1),
       calls |-> 0]

\* What a change notification is doing: LISTENERS and the closures as they are
\* now and the calls of listeners made so far.
StorageStart == [L |-> StorageLISTENERS, W |-> storageClosures, invoked |-> <<>>]

\* listener(key, oldValue, newValue) for an entry of the Map. A closure of
\* once() takes two parameters: it calls its captured listener with the key and
\* the old value, then off(event, wrapped) while the iterator is live.
StorageCall(st, listener, key) ==
  IF listener.kind = "wrapped"
  THEN LET w == st.W[listener.n]
       IN  [st EXCEPT
              !.invoked = Append(@, [listener |-> w.listener,
                                     args |-> <<key, "old">>, via |-> listener.n]),
              !.W[listener.n].calls = IF @ < 2 THEN @ + 1 ELSE @,
              !.L = IF Has(st.L, w.event)
                    THEN [st.L EXCEPT ![w.event] =
                            [i \in 1..Len(@) |->
                               IF @[i].listener = listener THEN NoEntry ELSE @[i]]]
                    ELSE st.L]
  ELSE [st EXCEPT
          !.invoked = Append(@, [listener |-> listener,
                                 args |-> <<key, "old", "new">>, via |-> 0])]

RECURSIVE ForKeys(_, _, _, _)
\* for (const key of keys) { listener(key, oldValue, newValue); }: listener is
\* the variable the outer loop bound, whatever the Map holds by now.
ForKeys(st, listener, keys, k) ==
  IF k > Len(keys) THEN st
  ELSE ForKeys(StorageCall(st, listener, keys[k]), listener, keys, k + 1)

RECURSIVE ForEntries(_, _, _, _)
\* for (const [listener, {sync, local}] of LISTENERS.get(event)) { ... }, from
\* position i on.
ForEntries(st, i, keys, area) ==
  LET map == st.L["changed"]
  IN  IF i > Len(map) THEN st
      ELSE IF map[i] = NoEntry THEN ForEntries(st, i + 1, keys, area)
      ELSE IF (area = "sync" /\ ~map[i].sync) \/ (area = "local" /\ ~map[i].local)
           THEN ForEntries(st, i + 1, keys, area)
           ELSE ForEntries(ForKeys(st, map[i].listener, keys, 1), i + 1, keys, area)

\* The chrome.storage.onChanged listener: (changes, area) => { ... }, with keys
\* the keys of changes. The Maps are left without the deleted entries.
onChanged(st, keys, area) ==
  IF ~Has(st.L, "changed") THEN st
  ELSE LET ran == ForEntries(st, 1, keys, area)
       IN  [ran EXCEPT !.L = [e \in DOMAIN ran.L |->
                                SelectSeq(ran.L[e], LAMBDA x : x # NoEntry)]]

\* The calls of on and once explored: with a function alone, with opts and a
\* function, with nothing, and with no event name.
StorageCalls ==
  {<<"changed", Fn("spy"), Absent>>, <<"changed", Opts("nosync"), Fn("spy")>>,
   <<"changed", Absent, Absent>>, <<"", Fn("spy"), Absent>>}

\* The application calls on, once and off of storage.js.
StorageOn(event, opts, listener) ==
  /\ Registered(StorageLISTENERS) < MaxStored
  /\ StorageLISTENERS' = storage_on(StorageLISTENERS, event, opts, listener)
  /\ sop' = [NoSop EXCEPT !.name = "on", !.event = event,
                          !.listener = Given(opts, listener).listener]
  /\ UNCHANGED <<storageClosures, busVars, emitVars, channelVars>>

StorageOnce(event, opts, listener) ==
  /\ Registered(StorageLISTENERS) < MaxStored
  /\ Len(storageClosures) < MaxStoredOnce
  /\ IF event = ""
     THEN UNCHANGED <<StorageLISTENERS, storageClosures>>
     ELSE /\ storageClosures' =
               Append(storageClosures, StorageClosure(event, opts, listener))
          /\ StorageLISTENERS' =
               storage_on(StorageLISTENERS, event, Given(opts, listener).opts,
                          Wrapped(Len(storageClosures) + 1))
  /\ sop' = [NoSop EXCEPT !.name = "once", !.event = event,
                          !.listener = Given(opts, listener).listener]
  /\ UNCHANGED <<busVars, emitVars, channelVars>>

StorageOff(event, listener) ==
  /\ StorageLISTENERS' = storage_off(StorageLISTENERS, event, listener)
  /\ sop' = [NoSop EXCEPT !.name = "off", !.event = event, !.listener = listener]
  /\ UNCHANGED <<storageClosures, busVars, emitVars, channelVars>>

\* The host reports a change of the keys in an area of the storage.
OnChanged(keys, area) ==
  LET ran == onChanged(StorageStart, keys, area)
  IN  /\ StorageLISTENERS' = ran.L
      /\ storageClosures' = ran.W
      /\ sop' = [NoSop EXCEPT !.name = "changed", !.event = area, !.keys = keys,
                              !.invoked = ran.invoked]
      /\ UNCHANGED <<busVars, emitVars, channelVars>>

\* ------------------------------------------------------------------ specification

Next ==
  \/ \E c \in Calls : On(c[1], c[2])
  \/ \E c \in OnceCalls : Once(c[1], c[2])
  \/ \E c \in Calls : Off(c[1], c[2])
  \/ \E m \in Messages, s \in Senders : Dispatch(m, s)
  \/ \E i \in 1..MaxRegistered, o \in {"zed", "reject"} : Settle(i, o)
  \/ ThenSingle
  \/ ThenAll

Spec == Init /\ [][Next]_vars

NextEmit ==
  \/ \E a \in EmitArguments : Emit(a[1], a[2], a[3])
  \/ \E i \in 1..MaxEmits, r \in {Undefined, Str("barbaz")},
         e \in {Undefined, Str("no receiving end")} : Handler(i, r, e)

SpecEmit == Init /\ [][NextEmit]_vars

\* Messages the other end of a port posts.
ChannelMessages ==
  {[event |-> "foo", payload |-> Value("bar")],
   [event |-> "", payload |-> Value("bar")]}

\* The registry: connect and disconnect, and inbound connections.
NextRegistry ==
  \/ \E name \in ChannelNames, h \in Handlers \cup {NotFn} : Connect(name, h)
  \/ \E c \in 0..MaxChannels : Disconnect(c)
  \/ \E name \in PortNames : OnConnect(name, "T1")

\* In the background page, and in a page that opens the connections.
SpecRegistry == InitEither /\ [][NextRegistry]_vars

\* The end of a connection: channels of one name, made by connect or for an
\* inbound port, with listeners of the reserved event attached with on and
\* with once; disconnect, and the teardown by the other end or the transport.
NextTeardown ==
  \/ Connect("foo", Fn("h1"))
  \/ OnConnect("@krome/channel/foo", "T1")
  \/ \E c \in 1..MaxChannels : ChannelOn(c, "disconnect", Fn("spy"))
  \/ \E c \in 1..MaxChannels : ChannelOnce(c, "disconnect", Fn("spy"))
  \/ \E c \in 0..MaxChannels : Disconnect(c)
  \/ \E c \in 1..MaxChannels, lastError \in {"undefined", "error"} :
       OnDisconnect(c, lastError)

SpecTeardown == InitEither /\ [][NextTeardown]_vars

\* The calls of Channel.on, once and off explored: an event of the application
\* with a function, and the calls with no function or no event name.
ChannelCalls ==
  {<<"foo", Fn("spy")>>, <<"foo", NotFn>>, <<"foo", Absent>>, <<"", Fn("spy")>>}

\* A Channel and a Tunnel on ports the application has opened: their
\* listeners, the messages of the other end, and emit.
NextChannel ==
  \/ \E kind \in {"Channel", "Tunnel"} : New(kind, "@krome/channel/foo")
  \/ \E c \in 1..MaxChannels, call \in ChannelCalls : ChannelOn(c, call[1], call[2])
  \/ \E c \in 1..MaxChannels, call \in ChannelCalls : ChannelOnce(c, call[1], call[2])
  \/ \E c \in 1..MaxChannels, call \in ChannelCalls : ChannelOff(c, call[1], call[2])
  \/ \E c \in 1..MaxChannels, message \in ChannelMessages : OnMessage(c, message)
  \/ \E c \in 1..MaxChannels, event \in {"foo", "disconnect", ""},
         payload \in {"bar", "undefined"} : ChannelEmit(c, event, payload)

SpecChannel == InitContents /\ [][NextChannel]_vars

\* The ports of the peers of tunnel 't', as the broker's side names them.
TunnelPortNames ==
  {"@krome/channel/tunnel/t/devtools", "@krome/channel/tunnel/t/contents"}

\* The tab of the sender of an inbound port: a content script runs in a tab, a
\* devtools page or another page of the extension does not.
SenderTabs == {"T1", "T2", "undefined"}

\* What the peers post: the 'init' of tunnel.connect(), with the inspected tab
\* or nothing, and the envelopes of Tunnel.emit().
TunnelMessages ==
  {Channel_emit("init", Value(id))[1] : id \in {"T1", "undefined"}}
    \cup {Tunnel_emit("ping", "42")[1]}

\* The tunnel: the broker in the background page with the ports of its peers,
\* and tunnel.connect() in the pages of the peers.
NextTunnel ==
  \/ TunnelCreate("t")
  \/ TunnelConnect("t")
  \/ \E name \in TunnelPortNames, sender \in SenderTabs : OnConnect(name, sender)
  \/ \E c \in 1..MaxChannels, message \in TunnelMessages : OnMessage(c, message)
  \/ \E c \in 1..MaxChannels : OnDisconnect(c, "undefined")

SpecTunnel == InitAnywhere /\ [][NextTunnel]_vars

\* What a port can deliver when every endpoint sends through Channel.emit or
\* Tunnel.emit only: the messages those make for the handshake, for an event
\* of the application and for the reserved name.
WireMessages ==
  UNION {Members(Channel_emit(e, Value("T1"))) \cup Members(Tunnel_emit(e, "T1")) :
           e \in {"init", "ping", "disconnect"}}

\* Endpoints that send through emit only: the broker with the ports of its
\* peers, a channel the application connects, listeners of 'disconnect', the
\* messages emit can put on a port, and the end of a connection.
NextWire ==
  \/ TunnelCreate("t")
  \/ Connect("foo", Fn("h1"))
  \/ \E name \in TunnelPortNames : OnConnect(name, "T1")
  \/ \E c \in 1..MaxChannels : ChannelOn(c, "disconnect", Fn("spy"))
  \/ \E c \in 1..MaxChannels, event \in {"ping", "disconnect"} :
       ChannelEmit(c, event, "T1")
  \/ \E c \in 1..MaxChannels, message \in WireMessages : OnMessage(c, message)
  \/ \E c \in 1..MaxChannels : OnDisconnect(c, "undefined")

SpecWire == InitEither /\ [][NextWire]_vars

\* The listeners of storage.js and the change notifications of the host, of
\* one key and of two, in either area.
NextStorage ==
  \/ \E call \in StorageCalls : StorageOn(call[1], call[2], call[3])
  \/ \E call \in StorageCalls : StorageOnce(call[1], call[2], call[3])
  \/ StorageOff("changed", Fn("spy"))
  \/ \E keys \in {<<"a">>, <<"a", "b">>}, area \in {"sync", "local"} :
       OnChanged(keys, area)

SpecStorage == Init /\ [][NextStorage]_vars

\* ------------------------------------------------------------------ properties

\* The listeners registered under an event name in a registry.
Under(L, event) == IF event \in DOMAIN L THEN L[event] ELSE <<>>

\* The dispatch followed is that of the envelope emit() sends for event E.
EnvelopeOf(E) ==
  /\ dispatch.mode # "idle"
  /\ "event" \in DOMAIN dispatch.msg
  /\ dispatch.msg.event = "@krome/event/" \o E

\* The calls the followed dispatch made of listener l.
InvocationsOf(l) ==
  {i \in 1..Len(dispatch.invoked) : dispatch.invoked[i].listener = l}

\* The followed dispatch is over: the handler has returned or thrown, every
\* future its listeners returned has settled, and no continuation is left to run.
Over ==
  \/ dispatch.mode \in {"ignored", "done", "threw"}
  \/ /\ dispatch.mode \in {"single", "all"}
     /\ \A i \in 1..Len(dispatch.responses) : dispatch.responses[i].state # "pending"
     /\ \E i \in 1..Len(dispatch.responses) : dispatch.responses[i].state = "rejected"

\* C1: one dispatch of the envelope of E invokes every listener registered under
\* E by on() exactly once, with the envelope's payload and the dispatch's sender,
\* and invokes no listener that is not registered under E.
C1_FanOut ==
  \A E \in Names \ {""} :
    EnvelopeOf(E) =>
      /\ \A l \in Members(Under(dispatch.before, E)) :
           l.kind = "fn" =>
             /\ Cardinality(InvocationsOf(l)) = 1
             /\ \A i \in InvocationsOf(l) :
                  /\ dispatch.invoked[i].payload = dispatch.msg.payload
                  /\ dispatch.invoked[i].sender = dispatch.sender
      /\ \A i \in 1..Len(dispatch.invoked) :
           dispatch.invoked[i].listener \in Members(Under(dispatch.before, E))

\* C2: the listener given to once(E, L) is called exactly once, by the first
\* dispatch of E after the call, and by no later dispatch.
C2_OnceExactlyOnce ==
  \A n \in 1..Len(closures) :
    closures[n].listener.kind = "fn" =>
      /\ closures[n].seen = 0 => closures[n].calls = 0
      /\ closures[n].seen >= 1 => closures[n].calls = 1

\* C3: off(E, L) leaves L unregistered under E and the other event names as they
\* were; a dispatch of E invokes no function that is not registered under E;
\* and off(E, L) for an L not registered under E changes nothing in the registry.
C3_Off ==
  /\ (op.name = "off" /\ op.event # "" /\ IsFunction(op.listener)) =>
       /\ op.listener \notin Members(Under(LISTENERS, op.event))
       /\ \A e \in Names \ {op.event} : Under(LISTENERS, e) = Under(op.before, e)
  /\ (op.name = "off" /\ ~op.had) => LISTENERS = op.before
  /\ \A E \in Names \ {""} :
       EnvelopeOf(E) =>
         \A id \in Fns :
           Fn(id) \notin Members(Under(dispatch.before, E)) => InvocationsOf(Fn(id)) = {}

\* C3 witness: off() has just detached one of two listeners of an event.
C3_Witness ==
  /\ op.name = "off"
  /\ op.had
  /\ Len(Under(op.before, op.event)) = 2
  /\ Len(Under(LISTENERS, op.event)) = 1

\* C4: a dispatch of a namespaced envelope never calls the responder twice, and
\* once it is over it has called it exactly once.
C4_ExactlyOneResponse ==
  /\ Len(dispatch.responded) <= 1
  /\ \A E \in Names \ {""} :
       (EnvelopeOf(E) /\ Over) => Len(dispatch.responded) = 1

\* The listeners of a registration list that return something other than undefined.
Returners(regs) ==
  SelectSeq(regs, LAMBDA l : l.kind = "fn" /\ Returns(l.id).type # "undefined")

\* No future returned to the followed dispatch has rejected.
NoneRejected ==
  \A i \in 1..Len(dispatch.responses) : dispatch.responses[i].state # "rejected"

\* The value the j-th returning listener gave: its plain value, null, or the
\* value its future fulfilled with.
Awaited(l, j) ==
  CASE Returns(l.id).type = "value" -> Returns(l.id).value
    [] Returns(l.id).type = "null" -> "null"
    [] OTHER -> IF j <= Len(dispatch.responses)
                THEN dispatch.responses[j].value ELSE "?"

\* C5: with two or more listeners of E returning a value, the listeners are
\* invoked in registration order and the response is the sequence of the awaited
\* values in that order.
C5_OrderedResponses ==
  \A E \in Names \ {""} :
    LET regs == Under(dispatch.before, E)
        rets == Returners(regs)
    IN  (EnvelopeOf(E) /\ Len(rets) >= 2) =>
          /\ [i \in 1..Len(dispatch.invoked) |-> dispatch.invoked[i].listener] = regs
          /\ (Over /\ NoneRejected) =>
               dispatch.responded =
                 <<[kind |-> "array",
                    vals |-> [j \in 1..Len(rets) |-> Awaited(rets[j], j)]]>>

\* C6: with exactly one listener of E returning a value V, plain or through a
\* future, the response is V itself.
C6_SingleResponse ==
  \A E \in Names \ {""} :
    LET rets == Returners(Under(dispatch.before, E))
    IN  (EnvelopeOf(E) /\ Len(rets) = 1 /\ Over /\ NoneRejected) =>
          dispatch.responded = <<[kind |-> "single", vals |-> <<Awaited(rets[1], 1)>>]>>

\* C7: a dispatch of E with no listener registered under E, none ever or none
\* left, calls the responder at once, with no value.
C7_NoListeners ==
  \A E \in Names \ {""} :
    (EnvelopeOf(E) /\ Under(dispatch.before, E) = <<>>) =>
      /\ dispatch.responded = <<[kind |-> "none", vals |-> <<>>]>>
      /\ dispatch.invoked = <<>>
      /\ ~dispatch.threw

\* C7 witness: E was dispatched after its last listener, a once() closure that
\* had run, was removed.
C7_Witness ==
  /\ EnvelopeOf("foo")
  /\ "foo" \in DOMAIN dispatch.before
  /\ dispatch.before["foo"] = <<>>
  /\ Len(closures) >= 1
  /\ closures[1].calls = 1
  /\ dispatch.responded = <<[kind |-> "none", vals |-> <<>>]>>

\* C8: a message whose event is absent or lacks the prefix emit() prepends
\* reaches no listener and no responder; one that carries it is dispatched under
\* the rest of the event string.
C8_Namespace ==
  dispatch.mode # "idle" =>
    LET msg == dispatch.msg
        carries == "event" \in DOMAIN msg /\ StartsWith(msg.event, "@krome/event/")
    IN  /\ ~carries => (dispatch.invoked = <<>> /\ dispatch.responded = <<>>)
        /\ carries => dispatch.name = SubSeq(msg.event, 14, Len(msg.event))

\* The host send-primitive calls made by the k-th call of emit().
SendsOf(k) == {i \in 1..Len(sent) : sent[i].call = k}

C10_Addressing ==
  \A i \in 1..Len(sent) :
    LET first == calls[sent[i].call][1]
    IN  IF first.type = "number"
        THEN sent[i].send.api = "chrome.tabs.sendMessage" /\ sent[i].send.tab = first
        ELSE sent[i].send.api = "chrome.runtime.sendMessage"

\* C11: once the host has called the callback of a send, the promise emit()
\* returned for it is rejected with the host's error if chrome.runtime.lastError
\* was set at that call, and resolved with the callback's response if it was
\* not; until then it is pending; and every call of emit() returns.
C11_EmitFuture ==
  /\ Len(promises) = Len(calls)
  /\ \A i \in 1..Len(sent) :
       LET p == promises[sent[i].call]
       IN  IF ~sent[i].called
           THEN p.state = "pending"
           ELSE IF sent[i].callback[2].type # "undefined"
                THEN p = [state |-> "rejected", value |-> sent[i].callback[2]]
                ELSE p = [state |-> "resolved", value |-> sent[i].callback[1]]

\* C11 witness: of two emits, one was rejected with the host's error although
\* its callback carried a response, and one resolved with the response.
C11_Witness ==
  /\ Len(sent) = 2
  /\ sent[1].called
  /\ sent[1].callback = <<Str("barbaz"), Str("no receiving end")>>
  /\ promises[sent[1].call].state = "rejected"
  /\ sent[2].called
  /\ promises[sent[2].call] = [state |-> "resolved", value |-> Str("barbaz")]

\* C12: the promise of a once(E) called with no function to call is pending
\* while no envelope of E has arrived since the call; after the first dispatch
\* of E it is fulfilled with that dispatch's payload and its closure is no
\* longer registered; and a later dispatch of E does not call the closure.
C12_OncePromise ==
  \A n \in 1..Len(closures) :
    closures[n].promise # "none" =>
      /\ closures[n].seen = 0 => closures[n].promise = "pending"
      /\ (closures[n].seen = 1 /\ EnvelopeOf(closures[n].event)) =>
           /\ closures[n].promise = "fulfilled"
           /\ closures[n].value = dispatch.msg.payload
           /\ [kind |-> "wrapped", id |-> "wrapped", n |-> n]
                \notin Members(Under(LISTENERS, closures[n].event))
      /\ (closures[n].seen = 2 /\ EnvelopeOf(closures[n].event)) =>
           \A i \in 1..Len(dispatch.invoked) :
             dispatch.invoked[i].listener.kind # "wrapped"

\* C13: a call of on, once or off with an empty event name, or with a listener
\* that is supplied and is not a function, leaves the listener registry as it was.
C13_InvalidCalls ==
  (/\ op.name \in {"on", "once", "off"}
   /\ (op.event = "" \/ op.listener.kind = "object")) =>
     LISTENERS = op.before

\* C14: a call emit('disconnect', payload) on a Channel or a Tunnel makes no
\* call of the port's postMessage; a call with any other non-empty event name
\* makes exactly one, on the port of that channel.
C14_ReservedEvent ==
  chop.name = "emit" =>
    /\ chop.event = "disconnect" => chop.posted = <<>>
    /\ chop.event \notin {"", "disconnect"} =>
         /\ Len(chop.posted) = 1
         /\ chop.posted[1].channel = chop.channel

\* The calls an operation made of listener l as a member of the listeners of
\* channel c.
MemberCalls(record, c, l) ==
  {i \in 1..Len(record.invoked) :
     /\ record.invoked[i].channel = c
     /\ record.invoked[i].listener = l
     /\ record.invoked[i].via = 0}

\* C15: in the step that ends the connection of a channel, whether the other
\* end, the transport or this side's disconnect() ended it, every listener the
\* channel holds for 'disconnect' is invoked exactly once.
C15_Teardown ==
  [][\A c \in 1..Len(channels) :
       (channels[c].connected /\ ~channels'[c].connected) =>
         \A l \in Members(Under(channels[c].listeners, "disconnect")) :
           Cardinality(MemberCalls(chop', c, l)) = 1]_vars

\* C16: a call of disconnect(channel) on a channel whose port is already
\* closed, as it is after a first call, throws nothing, invokes no listener and
\* leaves the channels, their listeners included, as they were.
C16_DisconnectTwice ==
  [][\A c \in 1..Len(channels) :
       (/\ chop'.name = "disconnect"
        /\ chop'.channel = c
        /\ ~channels[c].connected) =>
          /\ ~chop'.threw
          /\ chop'.invoked = <<>>
          /\ channels' = channels]_vars

\* C16 witness: disconnect() has been called on a channel with its port closed
\* already, and the channel holds a listener for 'disconnect'.
C16_Witness ==
  /\ chop.name = "disconnect"
  /\ chop.channel # 0
  /\ Len(chop.closed) = 1
  /\ ~chop.closed[1].connected
  /\ Len(Under(channels[chop.channel].listeners, "disconnect")) >= 1

\* The calls an operation made of handler h with channel c.
HandlerCalls(record, h, c) ==
  {i \in 1..Len(record.handled) :
     record.handled[i].handler = h /\ record.handled[i].channel = c}

\* C17: in the background page connect(name, h) queues h under the namespaced
\* name; an inbound connection under a name makes a new Channel and invokes
\* each handler queued under exactly that name once, with that Channel, and no
\* other handler; and it leaves every queue as it was.
C17_QueuedHandlers ==
  [][/\ (/\ chop'.name = "connect"
          /\ context = "background"
          /\ chop'.event # ""
          /\ chop'.listener.kind = "fn") =>
            chop'.listener \in
              Members(Under(HANDLERS', "@krome/channel/" \o chop'.event))
     /\ (chop'.name = "onConnect" /\ chop'.event \in DOMAIN HANDLERS) =>
          /\ chop'.created = Len(channels) + 1
          /\ Len(channels') = Len(channels) + 1
          /\ channels'[chop'.created].name = chop'.event
          /\ \A h \in Members(HANDLERS[chop'.event]) :
               Cardinality(HandlerCalls(chop', h, chop'.created)) = 1
          /\ \A i \in 1..Len(chop'.handled) :
               /\ chop'.handled[i].handler \in Members(HANDLERS[chop'.event])
               /\ chop'.handled[i].channel = chop'.created
          /\ HANDLERS' = HANDLERS
     /\ (chop'.name = "onConnect" /\ chop'.event \notin DOMAIN HANDLERS) =>
          /\ chop'.handled = <<>>
          /\ HANDLERS' = HANDLERS]_vars

\* C17 witness: the second inbound connection under a name has invoked the two
\* handlers queued under it.
C17_Witness ==
  /\ chop.name = "onConnect"
  /\ chop.created = 2
  /\ channels[1].name = channels[2].name
  /\ Len(chop.handled) = 2
  /\ chop.handled[1].handler # chop.handled[2].handler
  /\ Len(Under(HANDLERS, chop.event)) = 2

\* C18: disconnect(channel) leaves no handler queued under the name of the
\* channel, calls the port's disconnect once, leaving the port closed, and
\* leaves the queue of every other name as it was; a name gets handlers again
\* only by connect, and an inbound connection under a name with no handler
\* queued invokes none.
C18_DisconnectFrame ==
  [][/\ \A c \in 1..Len(channels) :
          (chop'.name = "disconnect" /\ chop'.channel = c) =>
            /\ Under(HANDLERS', channels[c].name) = <<>>
            /\ \A n \in DOMAIN HANDLERS \ {channels[c].name} :
                 n \in DOMAIN HANDLERS' /\ HANDLERS'[n] = HANDLERS[n]
            /\ DOMAIN HANDLERS' \subseteq DOMAIN HANDLERS
            /\ ~channels'[c].connected
            /\ Len(chop'.closed) = 1
            /\ chop'.closed[1].channel = c
     /\ \A n \in DOMAIN HANDLERS' :
          Under(HANDLERS', n) # Under(HANDLERS, n) =>
            chop'.name \in {"connect", "disconnect"}
     /\ (chop'.name = "onConnect" /\ Under(HANDLERS, chop'.event) = <<>>) =>
          chop'.handled = <<>>]_vars

\* C18 witness: disconnect() has taken away the handlers queued under the name
\* of an open channel, and a handler queued under another name is still there.
C18_Witness ==
  /\ chop.name = "disconnect"
  /\ Len(chop.closed) = 1
  /\ chop.closed[1].connected
  /\ Len(chop.closed[1].deleted) >= 1
  /\ \E n \in DOMAIN HANDLERS :
       n # channels[chop.channel].name /\ Len(HANDLERS[n]) >= 1

\* The broker's type of a channel, by the name of its port.
RoleOf(c) ==
  IF channels[c].name = "@krome/channel/tunnel/t/devtools" THEN "devtools"
  ELSE IF channels[c].name = "@krome/channel/tunnel/t/contents" THEN "contents"
  ELSE "none"

\* The opposite role.
Opposite(role) == IF role = "devtools" THEN "contents" ELSE "devtools"

\* The operation just run is the broker receiving, on channel c, an 'event'
\* message whose payload is the envelope of event e with payload p.
Relayed(c, e, p) ==
  /\ context = "background"
  /\ chop.name = "onMessage"
  /\ chop.event = "event"
  /\ chop.channel = c
  /\ \E i \in 1..Len(chop.invoked) :
       chop.invoked[i].payload = [nested |-> TRUE, event |-> e, payload |-> p]

\* C19: tunnel.connect(name, handler) in the page of a peer raises no error and
\* hands the handler a Tunnel; and when the broker receives the envelope of
\* 'ping' with payload 42 from a devtools peer registered under T1, it posts
\* {event: 'ping', payload: 42} on the port of the contents peer registered
\* under T1, for that peer's listeners, or posts nothing and raises no error if
\* there is none.
C19_TunnelRelay ==
  /\ (chop.name = "tunnel.connect" /\ context # "background") =>
       /\ ~chop.threw
       /\ \E i \in 1..Len(chop.handled) :
            /\ chop.handled[i].handler = [kind |-> "fn", id |-> "h1", n |-> 0]
            /\ chop.handled[i].channel # 0
            /\ channels[chop.handled[i].channel].kind = "Tunnel"
  /\ \A c \in 1..Len(channels) :
       (/\ Relayed(c, "ping", "42")
        /\ RoleOf(c) = "devtools"
        /\ channels[c].tab = "T1") =>
          /\ ~chop.threw
          /\ IF "T1" \in DOMAIN peers.contents
             THEN /\ Len(chop.posted) = 1
                  /\ chop.posted[1].channel = peers.contents["T1"]
                  /\ chop.posted[1].message =
                       [event |-> "ping",
                        payload |-> [nested |-> FALSE, event |-> "", payload |-> "42"]]
             ELSE chop.posted = <<>>

\* C20: an 'event' message the broker receives from a peer registered under an
\* identity is passed on to at most one channel, the one recorded under that
\* identity in the table of the opposite role: never to a channel of the
\* sender's role, to a channel registered under another identity, or to the
\* sender.
C20_RelayTarget ==
  \A c \in 1..Len(channels) :
    (/\ context = "background"
     /\ chop.name = "onMessage"
     /\ chop.event = "event"
     /\ chop.channel = c
     /\ RoleOf(c) # "none"
     /\ channels[c].tab # "undefined") =>
       /\ Len(chop.posted) <= 1
       /\ \A i \in 1..Len(chop.posted) :
            LET to == chop.posted[i].channel
            IN  /\ channels[c].tab \in DOMAIN peers[Opposite(RoleOf(c))]
                /\ to = peers[Opposite(RoleOf(c))][channels[c].tab]
                /\ to # c
                /\ RoleOf(to) = Opposite(RoleOf(c))
                /\ channels[to].tab = channels[c].tab

\* C20 witness: the broker has passed an 'event' message of a devtools peer on
\* to the contents peer of the same identity.
C20_Witness ==
  /\ Len(channels) = 2
  /\ Relayed(1, "ping", "42")
  /\ RoleOf(1) = "devtools"
  /\ RoleOf(2) = "contents"
  /\ channels[1].tab = "T1"
  /\ channels[2].tab = "T1"
  /\ Len(chop.posted) = 1
  /\ chop.posted[1].channel = 2

\* The roles of the peers of a tunnel: the keys of the broker's tables.
Roles == {"devtools", "contents"}

\* C21: the entry a role's table holds for a channel that has completed its
\* init is taken away in the step in which that channel's connection ends, and
\* in no other step: while the channel stays connected, the end of another
\* channel's connection leaves the entry in the table, pointing at the channel.
C21_EntryLifetime ==
  [][\A role \in Roles :
       \A I \in DOMAIN peers[role] :
         LET c == peers[role][I]
         IN  /\ (chop'.name = "onDisconnect" /\ chop'.channel = c) =>
                  I \notin DOMAIN peers'[role]
             /\ I \notin DOMAIN peers'[role] =>
                  (chop'.name = "onDisconnect" /\ chop'.channel = c)
             /\ (/\ chop'.name = "onDisconnect"
                 /\ chop'.channel # c
                 /\ channels'[c].connected) =>
                   /\ I \in DOMAIN peers'[role]
                   /\ peers'[role][I] = c]_vars

\* The step is the broker's channel c receiving the 'init' of its peer and
\* running the listener of c.once('init').
InitStep(c) ==
  /\ context = "background"
  /\ chop'.name = "onMessage"
  /\ chop'.event = "init"
  /\ chop'.channel = c
  /\ ~chop'.threw
  /\ \E i \in 1..Len(chop'.invoked) :
       /\ chop'.invoked[i].listener.kind = "broker"
       /\ chop'.invoked[i].listener.id = "init"

\* C22: an init completed under an identity puts the peer's channel in its
\* role's table under that identity, in place of any channel recorded there
\* before; from then on, while that channel is connected and no later init of
\* the role has taken place, the table maps the identity to that channel, and
\* an 'event' message of the opposite role's peer of that identity is posted
\* on that channel's port and on no other.
C22_LastWriter ==
  [][/\ \A c \in 1..Len(channels) :
          InitStep(c) =>
            /\ channels'[c].tab \in DOMAIN peers'[RoleOf(c)]
            /\ peers'[RoleOf(c)][channels'[c].tab] = c
     /\ \A role \in Roles :
          \A I \in DOMAIN peers[role] :
            (/\ channels'[peers[role][I]].connected
             /\ ~\E c \in 1..Len(channels) : InitStep(c) /\ RoleOf(c) = role) =>
               /\ I \in DOMAIN peers'[role]
               /\ peers'[role][I] = peers[role][I]
     /\ \A c \in 1..Len(channels) :
          (/\ context = "background"
           /\ chop'.name = "onMessage"
           /\ chop'.event = "event"
           /\ chop'.channel = c
           /\ RoleOf(c) # "none"
           /\ channels[c].tab # "undefined"
           /\ channels[c].tab \in DOMAIN peers[Opposite(RoleOf(c))]) =>
             /\ Len(chop'.posted) = 1
             /\ chop'.posted[1].channel = peers[Opposite(RoleOf(c))][channels[c].tab]]_vars

\* C23: a call emit(e, p) on a Tunnel, for any event name e and payload p,
\* posts exactly one message on the port of that Tunnel, the message
\* {event: 'event', payload: {event: e, payload: p}}; no message a Tunnel
\* posts has another outer event name.
C23_TunnelEnvelope ==
  /\ (/\ chop.name = "emit"
      /\ chop.channel # 0
      /\ channels[chop.channel].kind = "Tunnel") =>
        /\ Len(chop.posted) = 1
        /\ chop.posted[1].channel = chop.channel
        /\ chop.posted[1].message =
             [event |-> "event",
              payload |-> [nested |-> TRUE, event |-> chop.event,
                           payload |-> chop.payload]]
  /\ \A i \in 1..Len(chop.posted) :
       channels[chop.posted[i].channel].kind = "Tunnel" =>
         /\ chop.posted[i].message.event = "event"
         /\ chop.posted[i].message.payload.nested

\* C23 witness: a Tunnel has posted the envelope of emit('disconnect', 'bar').
C23_Witness ==
  /\ chop.name = "emit"
  /\ chop.event = "disconnect"
  /\ chop.payload = "bar"
  /\ channels[chop.channel].kind = "Tunnel"
  /\ Len(chop.posted) = 1
  /\ chop.posted[1].message.payload.event = "disconnect"
  /\ chop.posted[1].message.payload.payload = "bar"

\* C24: in a page that is not the background page, connect(name, handler)
\* with a name and a function opens exactly one port, named
\* '@krome/channel/' + name, makes one Channel on it and invokes the handler
\* exactly once, within the call, with that Channel, its port open; nothing is
\* queued in the registry of handlers and nothing is thrown.
C24_ConnectInitiator ==
  [][(/\ chop'.name = "connect"
      /\ context # "background"
      /\ chop'.event # ""
      /\ chop'.listener.kind = "fn") =>
        /\ ~chop'.threw
        /\ chop'.opened = <<"@krome/channel/" \o chop'.event>>
        /\ chop'.created = Len(channels) + 1
        /\ Len(channels') = Len(channels) + 1
        /\ channels'[chop'.created].name = "@krome/channel/" \o chop'.event
        /\ channels'[chop'.created].connected
        /\ chop'.handled =
             <<[handler |-> chop'.listener, channel |-> chop'.created]>>
        /\ HANDLERS' = HANDLERS
        /\ HANDLERS' = << >>]_vars

\* C24 witness: in a content script a second connect() has opened its port and
\* called its handler with the second Channel.
C24_Witness ==
  /\ context = "contents"
  /\ chop.name = "connect"
  /\ chop.created = 2
  /\ Len(chop.opened) = 1
  /\ Len(chop.handled) = 1
  /\ chop.handled[1].channel = 2
  /\ channels[2].connected

\* C25: an inbound connection under a name that does not begin with
\* '@krome/channel/', the prefix connect() puts before a name, makes no Channel
\* (so nothing is attached to the port), invokes no handler and leaves the
\* registry of handlers and the channels as they were.
C25_ForeignPort ==
  [][(/\ chop'.name = "onConnect"
      /\ ~StartsWith(chop'.event, "@krome/channel/")) =>
        /\ chop'.created = 0
        /\ channels' = channels
        /\ chop'.handled = <<>>
        /\ HANDLERS' = HANDLERS]_vars

\* C26: in the step in which the connection of a peer of the tunnel ends, the
\* broker leaves the table of the opposite role as it was, closes no port,
\* posts no message and leaves every other channel as it was.
C26_CounterpartUntouched ==
  [][\A c \in 1..Len(channels) :
       (/\ context = "background"
        /\ chop'.name = "onDisconnect"
        /\ chop'.channel = c
        /\ RoleOf(c) # "none") =>
          /\ peers'[Opposite(RoleOf(c))] = peers[Opposite(RoleOf(c))]
          /\ chop'.closed = <<>>
          /\ chop'.posted = <<>>
          /\ Len(channels') = Len(channels)
          /\ \A d \in 1..Len(channels) : d # c => channels'[d] = channels[d]]_vars

\* C26 witness: the devtools peer registered under T1 has disconnected, its
\* entry is gone, and the contents peer registered under T1 is connected and
\* still in its table.
C26_Witness ==
  /\ Len(channels) = 2
  /\ chop.name = "onDisconnect"
  /\ chop.channel = 1
  /\ \E i \in 1..Len(chop.invoked) :
       chop.invoked[i].listener = [kind |-> "broker", id |-> "disconnect", n |-> 1]
  /\ channels[1].tab = "T1"
  /\ "T1" \notin DOMAIN peers.devtools
  /\ "T1" \in DOMAIN peers.contents
  /\ peers.contents["T1"] = 2
  /\ channels[2].connected

\* C27: a dispatch of E to listeners of which some were attached with once()
\* and some with on(), in whatever order, invokes each listener that was
\* registered under E when the dispatch began exactly once, the closures of
\* once() removing themselves on the way.
C27_MixedDispatch ==
  \A E \in Names \ {""} :
    LET regs == Under(dispatch.before, E)
    IN  (/\ EnvelopeOf(E)
         /\ \E i \in 1..Len(regs) : regs[i].kind = "wrapped"
         /\ \E i \in 1..Len(regs) : regs[i].kind = "fn") =>
           \A l \in Members(regs) : Cardinality(InvocationsOf(l)) = 1

\* C28: the listener given to the once('changed', L) of storage.js is called at
\* most once, whatever change notifications arrive, with one key or with several.
C28_StorageOnce ==
  \A n \in 1..Len(storageClosures) :
    (storageClosures[n].event = "changed" /\ storageClosures[n].listener.kind = "fn") =>
      storageClosures[n].calls <= 1

C30_OffAfterOnce ==
  [][\A n \in 1..Len(closures) :
       (/\ op.name = "off"
        /\ op.event = closures[n].event
        /\ op.listener = closures[n].listener
        /\ op.listener.kind = "fn"
        /\ closures[n].seen = 0) =>
          /\ [kind |-> "wrapped", id |-> "wrapped", n |-> n]
               \in Members(Under(LISTENERS, op.event))
          /\ (/\ dispatch'.mode # "idle"
              /\ "event" \in DOMAIN dispatch'.msg
              /\ dispatch'.msg.event = "@krome/event/" \o op.event) =>
                closures'[n].calls = 1]_vars

\* C31: in the broker's page every entry of the table of either role points at
\* a channel whose port has not delivered its disconnect.
C31_LiveEntries ==
  context = "background" =>
    \A role \in Roles :
      \A I \in DOMAIN peers[role] :
        /\ peers[role][I] \in 1..Len(channels)
        /\ channels[peers[role][I]].connected

\* C31 witness: a devtools peer that had registered under T1 has disconnected
\* and its entry is gone, while the contents peer under T1 is connected and
\* recorded.
C31_Witness ==
  /\ context = "background"
  /\ Len(channels) = 2
  /\ ~channels[1].connected
  /\ channels[1].tab = "T1"
  /\ RoleOf(1) = "devtools"
  /\ peers.devtools = << >>
  /\ "T1" \in DOMAIN peers.contents
  /\ peers.contents["T1"] = 2
  /\ channels[2].connected

\* Channel c of the broker has completed its init: the closure of
\* c.once('init') has run to its end and removed itself.
Inited(c) ==
  /\ Under(channels[c].listeners, "event") # <<>>
  /\ Under(channels[c].listeners, "init") = <<>>

\* C32: an 'event' message the broker receives on a channel that has not
\* completed its init is passed on to no channel, whatever the tables hold.
C32_NoRelayBeforeInit ==
  \A c \in 1..Len(channels) :
    (/\ context = "background"
     /\ chop.name = "onMessage"
     /\ chop.event = "event"
     /\ chop.channel = c
     /\ ~Inited(c)) =>
       chop.posted = <<>>

\* C33: with every message on a port made by Channel.emit or Tunnel.emit, a
\* listener a channel holds for 'disconnect' is invoked only in the step in
\* which that channel's own port delivers its disconnect; and no message
\* posted, by the application or by the broker passing on an event named
\* 'disconnect', carries the event name 'disconnect'.
C33_DisconnectOnlyByPort ==
  /\ \A d \in 1..Len(channels) :
       \A l \in Members(Under(channels[d].listeners, "disconnect")) :
         MemberCalls(chop, d, l) # {} =>
           (chop.name = "onDisconnect" /\ chop.channel = d)
  /\ \A i \in 1..Len(chop.posted) : chop.posted[i].message.event # "disconnect"

\* C33 witness: the broker has received, from the devtools peer of T1, the
\* envelope Tunnel.emit makes for an event named 'disconnect', with the
\* contents peer of T1 registered and holding its listener for 'disconnect',
\* and has posted nothing.
C33_Witness ==
  /\ context = "background"
  /\ chop.name = "onMessage"
  /\ chop.event = "event"
  /\ Len(chop.invoked) = 1
  /\ chop.invoked[1].payload.nested
  /\ chop.invoked[1].payload.event = "disconnect"
  /\ RoleOf(chop.channel) = "devtools"
  /\ channels[chop.channel].tab = "T1"
  /\ "T1" \in DOMAIN peers.contents
  /\ Under(channels[peers.contents["T1"]].listeners, "disconnect") # <<>>
  /\ chop.posted = <<>>

====
